---------------------------- MODULE Spec2Model ----------------------------
(***************************************************************************)
(* A model of the REPID tree-construction core of repid_explainer:         *)
(*   src/repid_explainer/repid.py   class Node, class Repid                 *)
(*   src/repid_explainer/utils.py   SS_L2, split_node, find_best_split,     *)
(*                                  perform_split, node_to_split, ...       *)
(*                                                                         *)
(* Conventions                                                             *)
(*   - Python's None is the empty tuple <<>>, a present value x is <<x>>.   *)
(*   - A Node object is a record whose fields are exactly the attributes    *)
(*     the object has; reading an attribute that is no field of the record  *)
(*     is Python's AttributeError.                                          *)
(*   - Rows of the feature table and of the curve collection are numbered   *)
(*     from 0 as in the code; an index array is held as the set of its      *)
(*     (unique) indices.                                                    *)
(*   - A float is a pair <<n, d>> with d >= 0 standing for n/d; d = 0 is    *)
(*     numpy's inf (n > 0), -inf (n < 0) or nan (n = 0).                    *)
(*   - An exception is recorded by its Python class name; "" is no error.   *)
(***************************************************************************)
EXTENDS Integers, Sequences, FiniteSets, TLC

VARIABLES
    data,          \* the feature table handed to fit / to the Node methods
    ice_curve,     \* the curve collection (rows = samples, columns = grid)
    min_split_size,\* the min_split_size argument of the calls
    gamma,         \* the gamma argument of the calls
    nodes,         \* the Node objects that exist, by object number
    last,          \* the last Node method call: what was called, on what, how it ended
    cyc,           \* the running computeSplit / revertSplit alternation on one node
    pc,            \* where the Repid builder is: new, constructed, loop, ...
    repid,         \* the Repid object (None before / without construction)
    split,         \* the loop variable of Repid.fit
    max_obj_node,  \* the best-candidate accumulator of the current iteration
    iter,          \* how the last iteration of the growth loop ended
    ctor,          \* the arguments of the Repid(...) call (None before it)
    err,           \* the exception that ended the builder's last operation
    util           \* a direct call of a function of utils.py: arguments and result

vars == <<data, ice_curve, min_split_size, gamma, nodes, last, cyc,
          pc, repid, split, max_obj_node, iter, ctor, err, util>>

---------------------------------------------------------------------------
(* Bounds of the model *)

\* number of rows of the feature table and of the curve collection
NRows == 4
\* number of feature columns
NCols == 2
\* number of grid columns of a curve
NGrid == 2
\* number of Node objects that may exist
MaxNodes == 3
\* largest min_split_size that is tried
MaxMinSplit == 3
\* largest integer given as depth or n_split
MaxArg == 3
\* largest feature value of a column handed directly to a function of utils.py
MaxVal == 2

Rows == 0 .. NRows - 1
Cols == 0 .. NCols - 1

---------------------------------------------------------------------------
(* Values *)

None == <<>>
Some(x) == <<x>>
Val(o) == o[1]

NoError == ""

RECURSIVE Gcd(_, _)
Gcd(a, b) == IF b = 0 THEN a ELSE Gcd(b, a % b)

Abs(x) == IF x < 0 THEN -x ELSE x
Sign(x) == IF x < 0 THEN -1 ELSE IF x > 0 THEN 1 ELSE 0

\* the float n/d in lowest terms with d >= 0; n/0 is inf, -inf or nan
Float(n, d) ==
    IF d = 0 THEN <<Sign(n), 0>>
    ELSE LET g == Gcd(Abs(n), Abs(d))
             s == IF d < 0 THEN -1 ELSE 1
         IN <<(s * n) \div g, (s * d) \div g>>

IsNan(a) == a[1] = 0 /\ a[2] = 0
FloatSub(a, b) ==
    IF a[2] = 0 \/ b[2] = 0
    THEN (IF IsNan(a) \/ IsNan(b) \/ (a[2] = 0 /\ b[2] = 0 /\ a[1] = b[1])
          THEN <<0, 0>>
          ELSE IF a[2] = 0 THEN a ELSE <<-b[1], 0>>)
    ELSE Float(a[1] * b[2] - b[1] * a[2], a[2] * b[2])
FloatMul(a, b) ==
    IF a[2] = 0 \/ b[2] = 0
    THEN <<Sign(a[1]) * Sign(b[1]), 0>>
    ELSE Float(a[1] * b[1], a[2] * b[2])
\* numpy's float64 division: x/0 is inf, -inf or nan (a warning, no exception)
FloatDiv(a, b) ==
    IF IsNan(a) \/ IsNan(b) \/ (a[2] = 0 /\ b[2] = 0) THEN <<0, 0>>
    ELSE IF b[2] = 0 THEN <<0, 1>>
    ELSE IF a[2] = 0 THEN <<a[1] * (IF b[1] < 0 THEN -1 ELSE 1), 0>>
    ELSE Float(a[1] * b[2], a[2] * b[1])
\* a < b on floats; every comparison with nan is False
FloatLt(a, b) ==
    IF IsNan(a) \/ IsNan(b) THEN FALSE
    ELSE IF a[2] = 0 /\ b[2] = 0 THEN a[1] < b[1]
    ELSE IF a[2] = 0 THEN a[1] < 0
    ELSE IF b[2] = 0 THEN b[1] > 0
    ELSE a[1] * b[2] < b[1] * a[2]
FloatIsZero(a) == a[1] = 0 /\ a[2] # 0

NegInf == <<-1, 0>>
PosInf == <<1, 0>>

RECURSIVE SumOver(_, _)
\* the sum of f[x] over the finite set S
SumOver(S, f) ==
    IF S = {} THEN 0
    ELSE LET x == CHOOSE y \in S : TRUE
         IN f[x] + SumOver(S \ {x}, f)


RECURSIVE SetToSeq(_)
\* the elements of a finite set of integers in increasing order
SetToSeq(S) ==
    IF S = {} THEN <<>>
    ELSE LET x == CHOOSE y \in S : \A z \in S : y <= z
         IN <<x>> \o SetToSeq(S \ {x})

RECURSIVE Insert(_, _)
Insert(x, s) ==
    IF s = <<>> THEN <<x>>
    ELSE IF x <= Head(s) THEN <<x>> \o s
    ELSE <<Head(s)>> \o Insert(x, Tail(s))

RECURSIVE Sorted(_)
\* ndarray.sort(): the values of s in increasing order
Sorted(s) == IF s = <<>> THEN <<>> ELSE Insert(Head(s), Sorted(Tail(s)))

\* arr[idx] for an index array idx (held as a set of row numbers from 0)
SelectRows(arr, idx) ==
    LET o == SetToSeq(idx) IN [i \in 1 .. Len(o) |-> arr[o[i] + 1]]

\* arr[mask] for a boolean mask (a sequence of booleans as long as arr)
MaskRows(arr, mask) ==
    SelectRows(arr, {i - 1 : i \in {j \in 1 .. Len(mask) : mask[j]}})

\* column c (from 0) of a table given as a sequence of rows
Column(table, c) == [i \in 1 .. Len(table) |-> table[i][c + 1]]

---------------------------------------------------------------------------
(* utils.py *)

\* SS_L2(ice_curve): the sum over rows and grid columns of the squared
\* deviation from the column mean. np.mean of no rows is nan (a warning) and
\* the sum over no entries is 0.0.
SS_L2(curves) ==
    LET n == Len(curves)
        g == IF n = 0 THEN 0 ELSE Len(curves[1])
        colsq(c) == SumOver(1 .. n, [i \in 1 .. n |-> curves[i][c] * curves[i][c]])
        colsum(c) == SumOver(1 .. n, [i \in 1 .. n |-> curves[i][c]])
        tot == SumOver(1 .. g, [c \in 1 .. g |-> n * colsq(c) - colsum(c) * colsum(c)])
    IN IF n = 0 THEN <<0, 1>> ELSE Float(tot, n)

\* right_of_split(split_point, feature) on an array feature: value > split_point
right_of_split(split_point, feature) ==
    [i \in 1 .. Len(feature) |-> FloatLt(split_point, <<feature[i], 1>>)]

CountTrue(mask) == Cardinality({i \in 1 .. Len(mask) : mask[i]})

\* perform_split(split_point, feature, ice_curve, min_node_size, objective)
\* called with arrays: [err, cost]. A boolean mask that is not as long as
\* ice_curve has rows is numpy's IndexError.
perform_split(split_point, feature, curves, min_node_size) ==
    LET right_side == right_of_split(split_point, feature)
        nr == CountTrue(right_side)
    IN IF nr < min_node_size \/ nr > Len(feature) - min_node_size
       THEN [err |-> NoError, cost |-> PosInf]
       ELSE IF Len(right_side) # Len(curves)
       THEN [err |-> "IndexError", cost |-> PosInf]
       ELSE LET ice_right == MaskRows(curves, right_side)
                ice_left == MaskRows(curves, [i \in 1 .. Len(right_side) |-> ~right_side[i]])
                l == SS_L2(ice_left)
                r == SS_L2(ice_right)
            IN [err |-> NoError,
                cost |-> Float(l[1] * r[2] + r[1] * l[2], l[2] * r[2])]

\* np.percentile(a, q) with q = j (in percent) of the sorted values a, by
\* linear interpolation: a[lo] + frac * (a[lo+1] - a[lo]) at (len - 1) * j / 100
Percentile(a, j, n_quantiles) ==
    LET h == (Len(a) - 1) * j
        lo == h \div n_quantiles
        r == h % n_quantiles
    IN IF r = 0 THEN <<a[lo + 1], 1>>
       ELSE Float(n_quantiles * a[lo + 1] + r * (a[lo + 2] - a[lo + 1]), n_quantiles)

RECURSIVE FloatSort(_)
\* np.unique: the distinct floats of a finite set in increasing order
FloatSort(S) ==
    IF S = {} THEN <<>>
    ELSE LET x == CHOOSE y \in S : \A z \in S : ~FloatLt(z, y)
         IN <<x>> \o FloatSort(S \ {x})

RECURSIVE RangeSeq(_, _, _)
\* the members of S between lo and hi in increasing order
RangeSeq(S, lo, hi) ==
    IF lo > hi THEN <<>>
    ELSE IF lo = hi THEN (IF lo \in S THEN <<lo>> ELSE <<>>)
    ELSE RangeSeq(S, lo, (lo + hi) \div 2) \o RangeSeq(S, (lo + hi) \div 2 + 1, hi)

\* the distinct values of a sequence p (from 0) that never falls, in order
Distinct(p) ==
    CHOOSE u \in {[i \in 1 .. Len(o) |-> p[o[i]]] :
                    o \in {RangeSeq(keep, 0, Cardinality(DOMAIN p) - 1) :
                             keep \in {{j \in DOMAIN p : j = 0 \/ p[j] # p[j - 1]}}}} : TRUE

\* np.unique(np.percentile(raw, qprobs * 100)) for qprobs = linspace(0, 1,
\* n_quantiles + 1): the percentiles rise with j, so the distinct ones are
\* those that differ from their predecessor
UniquePercentiles(raw, n_quantiles) ==
    CHOOSE u \in {Distinct(p) :
                    p \in {[j \in 0 .. n_quantiles |-> Percentile(r, j, n_quantiles)] :
                             r \in {raw}}} : TRUE

\* the offsets with the upper end of the range forgotten: range(m, len, m)
SplitOffsetsToEnd(n, min_node_size) ==
    {i \in min_node_size .. n - 1 : (i - min_node_size) % min_node_size = 0}

\* line 151: range(min_node_size, len(data) - min_node_size, min_node_size)
SplitOffsets(n, min_node_size) ==
    {i \in min_node_size .. n - min_node_size - 1 :
        (i - min_node_size) % min_node_size = 0}

\* generate_split_candidates_numeric(data, n_quantiles, min_node_size) on a
\* numeric column: [err, sorted, split_point]. `sorted` is what the in-place
\* data.sort() leaves in the caller's array. idx = range(m, len - m, m); when
\* that range is empty np.array(range(...)) is an empty float64 array, and
\* indexing with it is numpy's IndexError. n_quantiles = None is <<>>.
generate_split_candidates_numeric(column, n_quantiles, min_node_size) ==
    LET srt == Sorted(column)
        n == Len(column)
        idx == SplitOffsets(n, min_node_size)
        raw == [i \in 1 .. Cardinality(idx) |-> srt[SetToSeq(idx)[i] + 1]]
    IN IF idx = {}
       THEN [err |-> "IndexError", sorted |-> srt, split_point |-> <<>>]
       ELSE IF n_quantiles = None
       THEN [err |-> NoError, sorted |-> srt,
             split_point |-> FloatSort({<<raw[i], 1>> : i \in 1 .. Len(raw)})]
       ELSE [err |-> NoError, sorted |-> srt,
             split_point |-> UniquePercentiles(raw, Val(n_quantiles))]

\* np.vectorize(perform_split)(candidates, feature, ice_curve, min_node_size,
\* objective): [err, out]. np.vectorize excludes no argument, so every
\* argument is broadcast as an array and perform_split is called on single
\* elements; with no otypes given it is first called on the first element of
\* each argument (ValueError when an argument has size 0), and right_of_split
\* then iterates over a numpy scalar: TypeError.
perform_split_vectorize(candidates, feature, curves, min_node_size) ==
    IF Len(candidates) = 0 \/ Len(feature) = 0 \/ Len(curves) = 0
        \/ (Len(curves) > 0 /\ Len(curves[1]) = 0)
    THEN [err |-> "ValueError", out |-> <<>>]
    ELSE [err |-> "TypeError", out |-> <<>>]

\* np.argmin: the first position (from 1) of a minimum
ArgMin(costs) ==
    CHOOSE i \in 1 .. Len(costs) :
        /\ \A j \in 1 .. Len(costs) : ~FloatLt(costs[j], costs[i])
        /\ \A j \in 1 .. i - 1 : FloatLt(costs[i], costs[j])

\* the n_quantiles argument find_best_split passes
NQuantiles == 100

\* lines 72-77 of find_best_split, given the candidates c of line 71
BestOfCandidates(c, curves, min_node_size) ==
    LET v == perform_split_vectorize(c.split_point, c.sorted, curves, min_node_size)
    IN IF c.err # NoError
       THEN [err |-> c.err, sorted |-> c.sorted, point |-> <<0, 0>>, cost |-> <<0, 0>>]
       ELSE IF v.err # NoError
       THEN [err |-> v.err, sorted |-> c.sorted, point |-> <<0, 0>>, cost |-> <<0, 0>>]
       ELSE LET min_ind == ArgMin(v.out)
            IN [err |-> NoError, sorted |-> c.sorted,
                point |-> c.split_point[min_ind], cost |-> v.out[min_ind]]

\* find_best_split(feature, ice_curve, min_node_size, objective):
\* [err, sorted, point, cost]
find_best_split(feature, curves, min_node_size) ==
    CHOOSE r \in {BestOfCandidates(c, curves, min_node_size) :
                    c \in {generate_split_candidates_numeric(
                               feature, Some(NQuantiles), min_node_size)}} : TRUE

\* Python's list.index(min(list)) on a list of two floats (position from 0)
IndexOfMin2(a, b) == IF FloatLt(b, a) THEN 1 ELSE 0

\* lines 43-51 of split_node, given what find_best_split gave for each of
\* the k columns (res, by column number from 0): np.apply_along_axis calls
\* find_best_split on the columns in order and stacks the pairs it returns as
\* a 2 x k array `splits` (row 0 the points, row 1 the costs); iterating
\* `splits` yields those two rows, so obj_vals = [splits[0][1], splits[1][1]].
BestOfColumns(res, k) ==
    LET bad == {c \in 0 .. k - 1 : res[c].err # NoError}
        fail(e) == [err |-> e, column_index |-> 0, split_val |-> <<0, 0>>,
                    new_tot_obj |-> <<0, 0>>]
    IN IF k = 0 THEN fail("ValueError")
       ELSE IF bad # {}
       THEN fail(res[CHOOSE c \in bad : \A d \in bad : c <= d].err)
       ELSE IF k < 2 THEN fail("IndexError")
       ELSE LET splits == << [c \in 0 .. k - 1 |-> res[c].point],
                             [c \in 0 .. k - 1 |-> res[c].cost] >>
                min_ind == IndexOfMin2(splits[1][1], splits[2][1])
            IN [err |-> NoError,
                column_index |-> min_ind,
                split_val |-> splits[min_ind + 1][0],
                new_tot_obj |-> splits[min_ind + 1][1]]

\* split_node(data, ice_curve, optimizer, min_node_size) on the rows `table`:
\* [err, column_index, split_val, new_tot_obj]
split_node(table, curves, min_node_size) ==
    LET k == IF Len(table) = 0 THEN NCols ELSE Len(table[1])
    IN CHOOSE r \in {BestOfColumns(res, k) :
                       res \in {[c \in 0 .. k - 1 |->
                                   find_best_split(Column(table, c), curves,
                                                   min_node_size)]}} : TRUE

---------------------------------------------------------------------------
(* repid.py: class Node *)

\* the children dictionary of a node without children. The default argument
\* of Node.__init__ is one dictionary shared by every node built without a
\* children argument; no code writes into a children dictionary (line 134
\* rebinds self.children to a new one), so the sharing is never observable
\* and a node's children are held by value.
NoChildren == [left |-> None, right |-> None]

\* the default arguments of Node.__init__
NodeDefaults ==
    [depth |-> None, subset_idx |-> None, obj_val |-> None, obj_val_root |-> None,
     child_type |-> None, split_feature |-> None, split_val |-> None,
     children |-> NoChildren, stop_criteria_met |-> FALSE,
     improvement_met |-> FALSE, intImp |-> None]

\* Node(**kw): the attributes __init__ sets, and no others (no obj_val_parent)
Node(kw) ==
    [a \in DOMAIN NodeDefaults |-> IF a \in DOMAIN kw THEN kw[a] ELSE NodeDefaults[a]]

\* self.<name> = v, creating the attribute when the object has none
SetAttr(self, name, v) ==
    [a \in DOMAIN self \cup {name} |-> IF a = name THEN v ELSE self[a]]

\* the stop check with the improvement_met test forgotten
StopCheckSizeOnly(self, m) == Cardinality(self.subset_idx) < m

\* line 50: the stop check of computeSplit
StopCheck(self, m) ==
    (Cardinality(self.subset_idx) < m) \/ self.improvement_met

\* lines 63-80 of computeSplit, on the node s1 as lines 54-55 leave it and
\* the result sp of split_node
StoreSplit(s1, sp, g) ==
    LET s2 == IF s1.intImp = None THEN [s1 EXCEPT !.intImp = Some(<<0, 1>>)] ELSE s1
    IN  IF sp.err # NoError
        THEN [self |-> s1, err |-> sp.err, evals |-> 2]
        ELSE IF "obj_val_parent" \notin DOMAIN s2
        THEN [self |-> s2, err |-> "AttributeError", evals |-> 2]
        ELSE IF s2.obj_val_parent = None
        THEN [self |-> s2, err |-> "TypeError", evals |-> 2]
        ELSE
        LET intImp == FloatDiv(FloatSub(Val(s2.obj_val), sp.new_tot_obj),
                               Val(s2.obj_val_parent))
            threshold == IF FloatIsZero(Val(s2.intImp)) THEN g
                         ELSE FloatMul(Val(s2.intImp), g)
        IN  IF FloatLt(intImp, threshold)
            THEN [self |-> [s2 EXCEPT !.improvement_met = TRUE],
                  err |-> NoError, evals |-> 2]
            ELSE [self |-> [s2 EXCEPT !.split_feature = Some(sp.column_index),
                                      !.split_val = Some(sp.split_val),
                                      !.intImp = Some(intImp),
                                      !.obj_val_parent = s2.obj_val,
                                      !.obj_val = Some(sp.new_tot_obj)],
                  err |-> NoError, evals |-> 2]

\* Node.computeSplit(data, ice_curve, objective, gamma, min_split_size):
\* [self, err, evals]; evals counts the calls of `objective` made.
computeSplit(self, d, curves, g, m) ==
    IF StopCheck(self, m)
    THEN [self |-> [self EXCEPT !.stop_criteria_met = TRUE], err |-> NoError, evals |-> 0]
    ELSE CHOOSE r \in
           {StoreSplit(s1, sp, g) :
              s1 \in {[self EXCEPT
                         !.obj_val_root = Some(SS_L2(curves)),
                         !.obj_val = Some(SS_L2(SelectRows(curves, self.subset_idx)))]},
              sp \in {split_node(SelectRows(d, self.subset_idx), curves, m)}} : TRUE

\* Node.revertSplit()
revertSplit(self) ==
    SetAttr([self EXCEPT !.stop_criteria_met = FALSE,
                         !.improvement_met = FALSE,
                         !.split_feature = None,
                         !.split_val = None,
                         !.intImp = None,
                         !.obj_val = None,
                         !.obj_val_root = None],
            "obj_val_parent", None)

\* the gate of computeChildren with the stop_criteria_met test forgotten
ChildrenGateImprovementOnly(self) == self.improvement_met

\* line 109: children remain as None if the stopping criteria are met
ChildrenGate(self) == self.improvement_met \/ self.stop_criteria_met

\* lines 117-118: the rows of the whole table on each side of the split
IndLeft(self, d) ==
    {i \in 0 .. Len(d) - 1 :
        ~FloatLt(Val(self.split_val), <<d[i + 1][Val(self.split_feature) + 1], 1>>)}
IndRight(self, d) ==
    {i \in 0 .. Len(d) - 1 :
        FloatLt(Val(self.split_val), <<d[i + 1][Val(self.split_feature) + 1], 1>>)}

\* lines 121-132: a child node
ChildNode(self, idx, type) ==
    Node([depth |-> Some(Val(self.depth) + 1),
          subset_idx |-> idx,
          child_type |-> Some(type),
          improvement_met |-> self.improvement_met,
          intImp |-> self.intImp,
          stop_criteria_met |-> self.stop_criteria_met])

\* Node.computeChildren(data): [err, made, left, right]; made says that two
\* child nodes were built (the caller's heap gives them their object numbers).
\* Comparing an array with a split_val of None, and None + 1, are TypeErrors.
computeChildren(self, d) ==
    LET no(e) == [err |-> e, made |-> FALSE, left |-> None, right |-> None]
    IN  IF ChildrenGate(self) THEN no(NoError)
        ELSE IF self.split_feature = None THEN no("ValueError")
        ELSE IF self.split_val = None THEN no("TypeError")
        ELSE IF self.depth = None THEN no("TypeError")
        ELSE [err |-> NoError, made |-> TRUE,
              left |-> Some(ChildNode(self, IndLeft(self, d), "left")),
              right |-> Some(ChildNode(self, IndRight(self, d), "right"))]

---------------------------------------------------------------------------
(* The inputs *)

\* feature tables: column 0 is a group label (0 below the cut, 1 from it on),
\* the other columns fall with the row number (so they are not sorted)
MkTable(cut) ==
    [i \in 1 .. NRows |->
        [c \in 1 .. NCols |-> IF c = 1 THEN (IF i - 1 >= cut THEN 1 ELSE 0)
                              ELSE NRows - i + c]]
Tables == {MkTable(cut) : cut \in {1, NRows \div 2}}

\* curve collections: constant curves, 0 below the cut and 10 from it on
MkCurves(cut) ==
    [i \in 1 .. NRows |-> [c \in 1 .. NGrid |-> IF i - 1 >= cut THEN 10 ELSE 0]]
CurveSets == {MkCurves(NRows \div 2)}

\* the min_split_size arguments tried
MinSplitSizes == {1, MaxMinSplit}

\* the default gamma of Repid.fit
DefaultGamma == <<1, 10>>
\* the default intImp of Repid.__init__
DefaultIntImp == <<1, 10>>

\* the nodes a caller builds with Node(...)
BuiltNodes ==
    {Node([depth |-> dp, subset_idx |-> sub, split_feature |-> sf[1],
           split_val |-> sf[2], stop_criteria_met |-> st, improvement_met |-> im,
           intImp |-> ii]) :
        dp \in {Some(1)},
        sub \in {Rows, 0 .. (NRows \div 2) - 1},
        sf \in {<<None, None>>, <<Some(0), Some(<<0, 1>>)>>,
                <<Some(1), Some(<<NRows, 1>>)>>, <<Some(0), None>>},
        st \in BOOLEAN, im \in BOOLEAN,
        ii \in {None, Some(DefaultIntImp)}}

\* line 194: max_obj_node = {"node": None, "intImp": -np.inf}
NoBest == [node |-> None, intImp |-> NegInf]
\* no iteration of the growth loop has ended
NoIteration == [end |-> "none", gained |-> {}, pre |-> <<>>, log |-> <<>>]

NoCall == [op |-> "none", node |-> 0, err |-> NoError, pre |-> None,
           evals |-> 0, before |-> None, made |-> FALSE]
NoCycle == [node |-> 0, phase |-> "none", start |-> None, first |-> None, calls |-> 0, ok |-> TRUE]
\* no function of utils.py has been called directly
NoUtil == [op |-> "none"]

---------------------------------------------------------------------------
(* The Node protocol: any sequence of computeSplit, revertSplit and
   computeChildren calls on the nodes of a tree *)

Init ==
    /\ data \in Tables
    /\ ice_curve \in CurveSets
    /\ min_split_size \in MinSplitSizes
    /\ gamma = DefaultGamma
    /\ nodes \in {<<n>> : n \in BuiltNodes}
    /\ last = NoCall
    /\ cyc = NoCycle
    /\ pc = "api"
    /\ repid = None
    /\ split = 0
    /\ max_obj_node = NoBest
    /\ iter = NoIteration
    /\ ctor = None
    /\ err = NoError
    /\ util = NoUtil

BuilderVars == <<pc, repid, split, max_obj_node, iter, ctor, err, util>>
InputVars == <<data, ice_curve, min_split_size, gamma>>

CallComputeSplit(n) ==
    /\ pc = "api"
    /\ \E r \in {computeSplit(nodes[n], data, ice_curve, gamma, min_split_size)} :
          /\ nodes' = [nodes EXCEPT ![n] = r.self]
          /\ last' = [op |-> "computeSplit", node |-> n, err |-> r.err,
                      pre |-> Some(nodes[n]), evals |-> r.evals,
                      before |-> None, made |-> FALSE]
          /\ cyc' = IF cyc.node = n /\ cyc.phase = "reverted"
                    THEN [cyc EXCEPT !.phase = "computed", !.calls = 2,
                                     !.ok = cyc.ok /\ r.err = NoError]
                    ELSE [node |-> n, phase |-> "computed", start |-> Some(nodes[n]),
                          first |-> Some(r.self), calls |-> 1,
                          ok |-> r.err = NoError]
    /\ UNCHANGED <<InputVars, BuilderVars>>

CallRevertSplit(n) ==
    /\ pc = "api"
    /\ nodes' = [nodes EXCEPT ![n] = revertSplit(nodes[n])]
    /\ last' = [op |-> "revertSplit", node |-> n, err |-> NoError,
                pre |-> Some(nodes[n]), evals |-> 0,
                before |-> IF last.op = "computeSplit" /\ last.node = n
                              /\ last.err = NoError
                           THEN last.pre ELSE None,
                made |-> FALSE]
    /\ cyc' = IF cyc.node = n /\ cyc.phase = "computed"
              THEN [cyc EXCEPT !.phase = "reverted"]
              ELSE NoCycle
    /\ UNCHANGED <<InputVars, BuilderVars>>

CallComputeChildren(n) ==
    /\ pc = "api"
    /\ Len(nodes) + 2 <= MaxNodes
    /\ \E r \in {computeChildren(nodes[n], data)}, k \in {Len(nodes)} :
          /\ nodes' = IF r.made
                      THEN [nodes EXCEPT ![n].children =
                                [left |-> Some(k + 1), right |-> Some(k + 2)]]
                           \o <<Val(r.left), Val(r.right)>>
                      ELSE nodes
          /\ last' = [op |-> "computeChildren", node |-> n, err |-> r.err,
                      pre |-> Some(nodes[n]), evals |-> 0, before |-> None,
                      made |-> r.made]
    /\ cyc' = NoCycle
    /\ UNCHANGED <<InputVars, BuilderVars>>

Next ==
    \E n \in 1 .. Len(nodes) :
        \/ CallComputeSplit(n)
        \/ CallRevertSplit(n)
        \/ CallComputeChildren(n)

Spec == Init /\ [][Next]_vars

\* the Node protocol on a curve collection whose curves are all the same (the
\* objective of every group of rows is 0), on nodes built without a split
InitFlat ==
    /\ data \in Tables
    /\ ice_curve = MkCurves(0)
    /\ min_split_size \in MinSplitSizes
    /\ gamma = DefaultGamma
    /\ nodes \in {<<n>> : n \in {b \in BuiltNodes :
                                    b.split_feature = None /\ b.split_val = None}}
    /\ last = NoCall
    /\ cyc = NoCycle
    /\ pc = "api"
    /\ repid = None
    /\ split = 0
    /\ max_obj_node = NoBest
    /\ iter = NoIteration
    /\ ctor = None
    /\ err = NoError
    /\ util = NoUtil

SpecFlat == InitFlat /\ [][Next]_vars

---------------------------------------------------------------------------
(* utils.py: node_to_split *)

\* the attributes line 217-220 read from the node
ConditionAttrs == {"improvement_met", "stop_criteria_met", "children", "childten"}

\* lines 223-228, on a node that passed the condition: [nodes, best, err,
\* log]. The log lists what the traversal did, in order: <<"visit", n>> for
\* entering node n, <<"computeSplit", n>>, <<"compare", n>> for line 225 on a
\* node whose intImp is present, <<"compareNone", n>> for line 225 on a node
\* whose intImp is None (a TypeError), <<"record", n>>, <<"revertSplit", n>>.
EvaluateNode(st, n, d, curves, g, m) ==
    CHOOSE out \in
      {IF r.err # NoError
       THEN [st EXCEPT !.nodes[n] = r.self, !.err = r.err,
                       !.log = @ \o <<<<"computeSplit", n>>>>]
       ELSE IF r.self.intImp = None
       THEN [st EXCEPT !.nodes[n] = r.self, !.err = "TypeError",
                       !.log = @ \o <<<<"computeSplit", n>>, <<"compareNone", n>>>>]
       ELSE IF FloatLt(st.best.intImp, Val(r.self.intImp))
       THEN [st EXCEPT !.nodes[n] = revertSplit(r.self),
                       !.best = [node |-> Some(n), intImp |-> Val(r.self.intImp)],
                       !.log = @ \o <<<<"computeSplit", n>>, <<"compare", n>>,
                                      <<"record", n>>, <<"revertSplit", n>>>>]
       ELSE [st EXCEPT !.nodes[n] = revertSplit(r.self),
                       !.log = @ \o <<<<"computeSplit", n>>, <<"compare", n>>,
                                      <<"revertSplit", n>>>>] :
         r \in {computeSplit(st.nodes[n], d, curves, g, m)}} : TRUE

RECURSIVE node_to_split(_, _, _, _, _, _)
\* node_to_split(node, max_obj_node, ice_curve, data, objective, gamma,
\* min_split_size) on the tree st.nodes with the accumulator st.best:
\* [nodes, best, err, log]. `node` is None or the number of a Node object.
\* An exception (st.err) ends the whole traversal.
node_to_split(st, node, d, curves, g, m) ==
    IF st.err # NoError \/ node = None THEN st
    ELSE
    LET self == st.nodes[Val(node)]
        s0 == [st EXCEPT !.log = @ \o <<<<"visit", Val(node)>>>>]
    IN  IF \E a \in ConditionAttrs : a \notin DOMAIN self
        THEN [s0 EXCEPT !.err = "AttributeError"]
        ELSE
        LET condition == \/ self.improvement_met
                         \/ self.stop_criteria_met
                         \/ self.children.left # None
                         \/ self.childten.right # None
            s1 == IF condition THEN s0
                  ELSE EvaluateNode(s0, Val(node), d, curves, g, m)
            s2 == IF s1.err # NoError THEN s1
                  ELSE node_to_split(s1, s1.nodes[Val(node)].children.left,
                                     d, curves, g, m)
        IN  IF s2.err # NoError THEN s2
            ELSE node_to_split(s2, s2.nodes[Val(node)].children.right,
                               d, curves, g, m)

---------------------------------------------------------------------------
(* repid.py: class Repid *)

\* an argument of Repid(...): its Python type and its value (a float pair
\* for a number, the text for a string)
IntArg(k) == [t |-> "int", v |-> <<k, 1>>, s |-> ""]
BoolArg(b) == [t |-> "bool", v |-> <<IF b THEN 1 ELSE 0, 1>>, s |-> ""]
FloatArg(n, d) == [t |-> "float", v |-> <<n, d>>, s |-> ""]
StrArg(x) == [t |-> "str", v |-> <<0, 1>>, s |-> x]
NoneArg == [t |-> "NoneType", v |-> <<0, 1>>, s |-> ""]

\* isinstance(x, int): bool is a subclass of int
IsInstanceInt(x) == x.t \in {"int", "bool"}
\* isinstance(x, (int, float))
IsInstanceNumber(x) == x.t \in {"int", "bool", "float"}

\* line 149: method not in ["symmetric", "nonsymmetric"]
MethodRejected(method) ==
    ~(method.t = "str" /\ method.s \in {"symmetric", "nonsymmetric"})
\* the lower bound written as < 0 in place of < 1
BelowOneAsBelowZero(x) == FloatLt(x.v, <<0, 1>>)

\* lines 158 and 161: n_split < 1, depth < 1
BelowOne(x) == FloatLt(x.v, <<1, 1>>)
\* line 167: intImp < 0
BelowZero(x) == FloatLt(x.v, <<0, 1>>)

\* Repid.__init__(depth, n_split, method, intImp): [err, self]
RepidInit(depth, n_split, method, intImp) ==
    LET raise == [err |-> "ValueError", self |-> None]
    IN  IF MethodRejected(method) THEN raise
        ELSE IF ~IsInstanceInt(n_split) THEN raise
        ELSE IF ~IsInstanceInt(depth) THEN raise
        ELSE IF BelowOne(n_split) THEN raise
        ELSE IF BelowOne(depth) THEN raise
        ELSE IF ~IsInstanceNumber(intImp) THEN raise
        ELSE IF BelowZero(intImp) THEN raise
        ELSE [err |-> NoError,
              self |-> Some([depth |-> depth, n_split |-> n_split,
                             method |-> method, intImp |-> intImp])]

\* the arguments a caller may give
IntLikeArgs ==
    {IntArg(k) : k \in -1 .. MaxArg} \cup {BoolArg(TRUE), BoolArg(FALSE)}
        \cup {FloatArg(2, 1), FloatArg(3, 2), StrArg("3"), NoneArg}
MethodArgs ==
    {StrArg("symmetric"), StrArg("nonsymmetric"), StrArg("Symmetric"),
     StrArg(""), NoneArg, IntArg(1)}
IntImpArgs ==
    {FloatArg(1, 10), FloatArg(0, 1), FloatArg(-1, 10), IntArg(0), IntArg(1),
     IntArg(-1), BoolArg(TRUE), StrArg("0.1"), NoneArg}

\* the integer an accepted depth or n_split stands for (True is 1)
IntOf(x) == x.v[1]

\* lines 187-189: the root node
FitRoot(self, d) ==
    Node([depth |-> Some(IntOf(self.depth)),
          subset_idx |-> 0 .. Len(d) - 1,
          intImp |-> Some(self.intImp.v)])

\* the nodes that have a child
WithChildren(ns) ==
    {n \in 1 .. Len(ns) : ns[n].children.left # None \/ ns[n].children.right # None}

RECURSIVE GrowLeaves(_, _)
\* every node of the sequence todo gets two children, each with half its rows
GrowLeaves(ns, todo) ==
    IF todo = <<>> THEN ns
    ELSE LET n == Head(todo)
             sub == SetToSeq(ns[n].subset_idx)
             l == {sub[i] : i \in 1 .. Len(sub) \div 2}
             k == Len(ns)
         IN GrowLeaves([ns EXCEPT ![n].children =
                            [left |-> Some(k + 1), right |-> Some(k + 2)]]
                       \o <<ChildNode(ns[n], l, "left"),
                            ChildNode(ns[n], ns[n].subset_idx \ l, "right")>>,
                       Tail(todo))

\* the loop body grown level by level, as the symmetric method would be: one
\* iteration splits every leaf that has two rows or more
FitLoopBodyEveryLeaf(ns, d, curves, g, m) ==
    [nodes |-> GrowLeaves(ns, SetToSeq({n \in 1 .. Len(ns) :
                                          /\ n \notin WithChildren(ns)
                                          /\ Cardinality(ns[n].subset_idx) >= 2})),
     best |-> NoBest, err |-> NoError, log |-> <<>>]

\* lines 194-201: one iteration of the growth loop, from the tree ns:
\* [nodes, best, err, log]
FitLoopBody(ns, d, curves, g, m) ==
    node_to_split([nodes |-> ns, best |-> NoBest, err |-> NoError, log |-> <<>>],
                  Some(1), d, curves, g, m)

---------------------------------------------------------------------------
(* The builder: Repid(...) and then fit *)

InitFit ==
    /\ data = <<>>
    /\ ice_curve = <<>>
    /\ min_split_size = 0
    /\ gamma = DefaultGamma
    /\ nodes = <<>>
    /\ last = NoCall
    /\ cyc = NoCycle
    /\ pc = "new"
    /\ repid = None
    /\ split = 0
    /\ max_obj_node = NoBest
    /\ iter = NoIteration
    /\ ctor = None
    /\ err = NoError
    /\ util = NoUtil

\* Repid(depth, n_split, method, intImp)
Construct ==
    /\ pc = "new"
    /\ \E depth \in IntLikeArgs, n_split \in IntLikeArgs,
          method \in MethodArgs, intImp \in IntImpArgs :
         \E r \in {RepidInit(depth, n_split, method, intImp)} :
            /\ ctor' = Some([depth |-> depth, n_split |-> n_split,
                             method |-> method, intImp |-> intImp])
            /\ repid' = r.self
            /\ err' = r.err
            /\ pc' = IF r.err = NoError THEN "constructed" ELSE "ctor_error"
    /\ UNCHANGED <<InputVars, nodes, last, cyc, split, max_obj_node, iter, util>>

\* fit(model, data, feature, gamma, min_split_size), lines 183-191 and 202-203:
\* the curves come from generate_ice, the root is built, and the method is
\* dispatched ("symmetric" does nothing more)
FitStart ==
    /\ pc = "constructed"
    /\ \E d \in Tables, c \in CurveSets, m \in MinSplitSizes :
         /\ data' = d
         /\ ice_curve' = c
         /\ min_split_size' = m
         /\ nodes' = <<FitRoot(Val(repid), d)>>
    /\ pc' = IF Val(repid).method.s = "nonsymmetric" THEN "loop" ELSE "returned"
    /\ split' = 0
    /\ UNCHANGED <<gamma, last, cyc, repid, max_obj_node, iter, ctor, err, util>>

\* one iteration of `for split in range(self.n_split)`, lines 193-201
FitIteration ==
    /\ pc = "loop"
    /\ split < IntOf(Val(repid).n_split)
    /\ \E r \in {FitLoopBody(nodes, data, ice_curve, gamma, min_split_size)} :
         /\ nodes' = r.nodes
         /\ max_obj_node' = r.best
         /\ err' = r.err
         /\ iter' = [end |-> IF r.err = NoError THEN "finished" ELSE "raised",
                     gained |-> WithChildren(r.nodes) \ WithChildren(nodes),
                     pre |-> nodes, log |-> r.log]
         /\ pc' = IF r.err # NoError THEN "raised"
                  ELSE IF split + 1 < IntOf(Val(repid).n_split) THEN "loop"
                  ELSE "returned"
         /\ split' = IF r.err # NoError THEN split ELSE split + 1
    /\ UNCHANGED <<InputVars, last, cyc, repid, ctor, util>>

NextFit == Construct \/ FitStart \/ FitIteration

SpecFit == InitFit /\ [][NextFit]_vars

---------------------------------------------------------------------------
(* The functions of utils.py called directly on arrays *)

RECURSIVE SeqsUpTo(_, _)
\* the sequences over S of length n or less
SeqsUpTo(S, n) ==
    IF n = 0 THEN {<<>>}
    ELSE LET shorter == SeqsUpTo(S, n - 1)
         IN shorter \cup {Append(q, x) : q \in {r \in shorter : Len(r) = n - 1}, x \in S}

\* the feature columns tried: integer values, repeated values and unsorted
\* columns included
Columns == SeqsUpTo(0 .. MaxVal, NRows)

\* a curve collection with one row for each value of the feature: constant
\* curves, 0 for the first half of the rows and 10 for the others
CurvesFor(feature) ==
    [i \in 1 .. Len(feature) |->
        [c \in 1 .. NGrid |-> IF 2 * (i - 1) >= Len(feature) THEN 10 ELSE 0]]

\* a feature table whose column 0 is the feature and whose other columns
\* fall with the row number
TableFor(feature) ==
    [i \in 1 .. Len(feature) |->
        [c \in 1 .. NCols |-> IF c = 1 THEN feature[i] ELSE Len(feature) - i + c]]

InitUtil ==
    /\ data = <<>>
    /\ ice_curve = <<>>
    /\ min_split_size = 0
    /\ gamma = DefaultGamma
    /\ nodes = <<>>
    /\ last = NoCall
    /\ cyc = NoCycle
    /\ pc = "utils"
    /\ repid = None
    /\ split = 0
    /\ max_obj_node = NoBest
    /\ iter = NoIteration
    /\ ctor = None
    /\ err = NoError
    /\ util \in {[op |-> "none", feature |-> f, min_node_size |-> m,
                   n_quantiles |-> q, split_point |-> <<p, 1>>] :
                     f \in Columns, m \in 1 .. MaxMinSplit,
                     q \in {None, Some(NQuantiles)}, p \in {0, 1}}

\* the record of a call: the arguments, the array the caller's feature
\* argument holds on return, and the result
Called(op, feature_after, res) ==
    [op |-> op, feature |-> util.feature, min_node_size |-> util.min_node_size,
     n_quantiles |-> util.n_quantiles, split_point |-> util.split_point,
     feature_after |-> feature_after, res |-> res]

NotCalled == pc = "utils" /\ DOMAIN util = DOMAIN NoUtil \cup
                 {"feature", "min_node_size", "n_quantiles", "split_point"}

UtilFrame == <<InputVars, nodes, last, cyc, pc, repid, split, max_obj_node,
               iter, ctor, err>>

\* generate_split_candidates_numeric(feature, n_quantiles, min_node_size)
CallGenerateSplitCandidates ==
    /\ NotCalled
    /\ \E r \in {generate_split_candidates_numeric(
                     util.feature, util.n_quantiles, util.min_node_size)} :
          util' = Called("generate_split_candidates_numeric", r.sorted, r)
    /\ UNCHANGED UtilFrame

\* perform_split(split_point, feature, ice_curve, min_node_size, SS_L2)
CallPerformSplit ==
    /\ NotCalled
    /\ \E r \in {perform_split(util.split_point, util.feature,
                                CurvesFor(util.feature), util.min_node_size)} :
          util' = Called("perform_split", util.feature, r)
    /\ UNCHANGED UtilFrame

\* find_best_split(feature, ice_curve, min_node_size, SS_L2)
CallFindBestSplit ==
    /\ NotCalled
    /\ \E r \in {find_best_split(util.feature, CurvesFor(util.feature),
                                  util.min_node_size)} :
          util' = Called("find_best_split", r.sorted, r)
    /\ UNCHANGED UtilFrame

\* split_node(data, ice_curve, find_best_split, min_node_size): line 39 copies
\* the table, so the caller's arrays are as before
CallSplitNode ==
    /\ NotCalled
    /\ \E r \in {split_node(TableFor(util.feature), CurvesFor(util.feature),
                             util.min_node_size)} :
          util' = Called("split_node", util.feature, r)
    /\ UNCHANGED UtilFrame

NextUtil ==
    \/ CallGenerateSplitCandidates
    \/ CallPerformSplit
    \/ CallFindBestSplit
    \/ CallSplitNode

SpecUtil == InitUtil /\ [][NextUtil]_vars

---------------------------------------------------------------------------
(* The claims *)

\* reading an attribute for a comparison: an attribute the object does not
\* have counts as absent (None)
Get(self, a) == IF a \in DOMAIN self THEN self[a] ELSE None

HasChildren(self) == self.children.left # None \/ self.children.right # None
NoStoredSplit(self) == self.split_feature = None /\ self.split_val = None

\* a node as the growth loop meets it: built by fit (the root) or by
\* computeChildren (a child), and not touched since
AsBuiltForGrowth(self) ==
    /\ NoStoredSplit(self)
    /\ self.intImp # None
    /\ ~self.stop_criteria_met /\ ~self.improvement_met
    /\ self.obj_val = None /\ self.obj_val_root = None
    /\ ~HasChildren(self)
    /\ "obj_val_parent" \notin DOMAIN self

\* C1 (as claimed): every iteration of the growth loop of fit ends with the
\* traversal finished and, when the traversal recorded a best candidate, with
\* exactly that node having been given children in the iteration.
C1_BestCandidateCommitted ==
    iter.end # "none" =>
        /\ iter.end = "finished"
        /\ max_obj_node.node # None => iter.gained = {Val(max_obj_node.node)}

\* C2: under fit the nodes that have children are never more than n_split,
\* and no iteration of the loop gives children to more than one node.
C2_AtMostOneSplitPerIteration ==
    repid # None =>
        /\ Cardinality(WithChildren(nodes)) <= IntOf(Val(repid).n_split)
        /\ Cardinality(iter.gained) <= 1
\* an iteration of the growth loop has run
C2_Witness == repid # None /\ iter.end # "none" /\ Len(nodes) >= 1

\* C3 (as claimed): the subsets of the two children of a node are disjoint
\* and their union is the subset of the node.
C3_ChildrenPartitionParent ==
    \A n \in 1 .. Len(nodes) :
        HasChildren(nodes[n]) =>
            LET l == nodes[Val(nodes[n].children.left)].subset_idx
                r == nodes[Val(nodes[n].children.right)].subset_idx
            IN l \cap r = {} /\ l \cup r = nodes[n].subset_idx

\* C5 (as claimed): computeSplit (returning normally) followed by revertSplit
\* on a node as the growth loop meets it leaves the fields computeSplit may
\* touch as they were before computeSplit.
C5_RevertRestores ==
    (last.op = "revertSplit" /\ last.before # None
        /\ AsBuiltForGrowth(Val(last.before))) =>
        \A a \in {"stop_criteria_met", "improvement_met", "split_feature",
                  "split_val", "intImp", "obj_val", "obj_val_root",
                  "obj_val_parent"} :
            Get(nodes[last.node], a) = Get(Val(last.before), a)

\* the outcome of a computeSplit call the claim C6 compares
Outcome(self) ==
    <<self.stop_criteria_met, self.improvement_met, self.split_feature,
      self.split_val, self.intImp>>

\* C6 (as claimed): in computeSplit, revertSplit, computeSplit, ... on one
\* node, with every computeSplit returning normally, every computeSplit
\* leaves the node with the outcome the first one left.
C6_SameOutcomeEveryCycle ==
    (cyc.phase = "computed" /\ cyc.ok) =>
        Outcome(nodes[cyc.node]) = Outcome(Val(cyc.first))

\* C7 (as claimed): computeChildren on a node with no stored split always
\* fails with the precondition error, whatever the flags.
C7_AlwaysFails ==
    (last.op = "computeChildren" /\ NoStoredSplit(Val(last.pre))) =>
        last.err = "ValueError" /\ ~last.made

\* C7 (amended): computeChildren on a node with no stored split attaches no
\* children and changes nothing; it fails with the precondition error
\* (ValueError) exactly when neither stop_criteria_met nor improvement_met is
\* set, and returns normally when one of them is set.
C7_FailsUnlessStopped ==
    (last.op = "computeChildren" /\ NoStoredSplit(Val(last.pre))) =>
        /\ ~last.made
        /\ nodes[last.node] = Val(last.pre)
        /\ last.err = IF Val(last.pre).stop_criteria_met
                         \/ Val(last.pre).improvement_met
                      THEN NoError ELSE "ValueError"
\* computeChildren has been called on a node with no stored split whose
\* stop_criteria_met is set, and on return the node has no children
C7_Witness ==
    /\ last.op = "computeChildren"
    /\ NoStoredSplit(Val(last.pre))
    /\ Val(last.pre).stop_criteria_met /\ ~Val(last.pre).improvement_met
    /\ ~HasChildren(nodes[last.node])

\* C8: computeSplit on a node with fewer than min_split_size rows, or whose
\* improvement_met is set, returns normally having set stop_criteria_met,
\* evaluated no objective and changed nothing else of the node.
C8_StopLeavesNodeAlone ==
    (last.op = "computeSplit"
        /\ (Cardinality(Val(last.pre).subset_idx) < min_split_size
              \/ Val(last.pre).improvement_met)) =>
        /\ last.err = NoError
        /\ last.evals = 0
        /\ nodes[last.node] = [Val(last.pre) EXCEPT !.stop_criteria_met = TRUE]
\* computeSplit has been called on a node with enough rows whose
\* improvement_met was set and whose stop_criteria_met was not
C8_Witness ==
    /\ last.op = "computeSplit"
    /\ Val(last.pre).improvement_met /\ ~Val(last.pre).stop_criteria_met
    /\ Cardinality(Val(last.pre).subset_idx) >= min_split_size
    /\ nodes[last.node].stop_criteria_met

\* C9 (as claimed): a node that has children has a stored split and neither
\* stop_criteria_met nor improvement_met set.
C9_ChildrenImplyStoredSplit ==
    \A n \in 1 .. Len(nodes) :
        HasChildren(nodes[n]) =>
            /\ nodes[n].split_feature # None /\ nodes[n].split_val # None
            /\ ~nodes[n].stop_criteria_met /\ ~nodes[n].improvement_met

\* the value of a numeric argument is below k
ArgBelow(x, k) == x.v[1] < k * x.v[2]
\* what the claim C10 calls an invalid configuration
InvalidConfiguration(a) ==
    \/ ~(a.method.t = "str" /\ a.method.s \in {"symmetric", "nonsymmetric"})
    \/ a.depth.t \notin {"int", "bool"} \/ ArgBelow(a.depth, 1)
    \/ a.n_split.t \notin {"int", "bool"} \/ ArgBelow(a.n_split, 1)
    \/ a.intImp.t \notin {"int", "bool", "float"} \/ ArgBelow(a.intImp, 0)

\* C10: Repid(...) with an invalid configuration fails with ValueError and
\* leaves no builder (so no fit, no tree); any other configuration is
\* accepted and stored as given.
C10_ConstructorValidates ==
    ctor # None =>
        IF InvalidConfiguration(Val(ctor))
        THEN pc = "ctor_error" /\ err = "ValueError" /\ repid = None /\ nodes = <<>>
        ELSE pc # "ctor_error" /\ repid = ctor
\* Repid(...) was called with n_split = 0 and otherwise valid arguments, and failed
C10_Witness ==
    /\ ctor # None
    /\ Val(ctor).n_split = IntArg(0)
    /\ ~InvalidConfiguration([Val(ctor) EXCEPT !.n_split = IntArg(1)])
    /\ pc = "ctor_error"

\* the number of values of a column that are <= t, >= t, > t (t a float)
CountLe(column, t) == Cardinality({i \in 1 .. Len(column) : ~FloatLt(t, <<column[i], 1>>)})
CountGe(column, t) == Cardinality({i \in 1 .. Len(column) : ~FloatLt(<<column[i], 1>>, t)})
CountGt(column, t) == Cardinality({i \in 1 .. Len(column) : FloatLt(t, <<column[i], 1>>)})
\* the floats of a sequence are unique and in increasing order
Increasing(p) == \A i \in 1 .. Len(p) - 1 : FloatLt(p[i], p[i + 1])
NoRepeatedValue(column) ==
    \A i, j \in 1 .. Len(column) : i # j => column[i] # column[j]
\* generate_split_candidates_numeric was called without a quantile cap and
\* returned
ReturnedUncapped ==
    /\ util.op = "generate_split_candidates_numeric"
    /\ util.n_quantiles = None
    /\ util.res.err = NoError

\* C17 (as claimed): every threshold returned without a quantile cap has at
\* least m values <= it and at least m values > it, and the thresholds are
\* unique and increasing.
C17_BothSidesHoldM ==
    ReturnedUncapped =>
        /\ Increasing(util.res.split_point)
        /\ \A i \in 1 .. Len(util.res.split_point) :
              /\ CountLe(util.feature, util.res.split_point[i]) >= util.min_node_size
              /\ CountGt(util.feature, util.res.split_point[i]) >= util.min_node_size

\* C17 (amended): every threshold returned without a quantile cap is a value
\* of the column with at least m values <= it and, itself included, at least
\* m + 1 values >= it; at least m values are > it when the column has no
\* repeated value; the thresholds are unique and increasing.
C17_OffsetsHoldM ==
    ReturnedUncapped =>
        /\ Increasing(util.res.split_point)
        /\ \A i \in 1 .. Len(util.res.split_point) :
              LET t == util.res.split_point[i]
              IN /\ \E j \in 1 .. Len(util.feature) : t = <<util.feature[j], 1>>
                 /\ CountLe(util.feature, t) >= util.min_node_size
                 /\ CountGe(util.feature, t) >= util.min_node_size + 1
                 /\ NoRepeatedValue(util.feature) =>
                        CountGt(util.feature, t) >= util.min_node_size
\* a column with repeated values gave two thresholds or more, one of them
\* with fewer than m values above it
C17_Witness ==
    /\ ReturnedUncapped
    /\ Len(util.res.split_point) >= 2
    /\ \E i \in 1 .. Len(util.res.split_point) :
          CountGt(util.feature, util.res.split_point[i]) < util.min_node_size

\* C11 (as claimed): for a column of exactly 2 x min_node_size values,
\* generate_split_candidates_numeric returns one candidate or more, and one
\* of the returned candidates is accepted by perform_split (finite cost).
C11_BoundaryColumnHasValidCandidate ==
    (util.op = "generate_split_candidates_numeric"
        /\ Len(util.feature) = 2 * util.min_node_size) =>
        /\ util.res.err = NoError
        /\ Len(util.res.split_point) >= 1
        /\ \E i \in 1 .. Len(util.res.split_point) :
              \E r \in {perform_split(util.res.split_point[i], util.feature,
                                      CurvesFor(util.feature), util.min_node_size)} :
                  r.err = NoError /\ r.cost[2] # 0

\* C12 (as claimed): on a table with more than 2 x min_node_size rows,
\* split_node returns the lowest-numbered column whose best candidate (as
\* find_best_split gives it) has the minimum cost over all columns, with that
\* column's best threshold and that cost.
C12_MinimumCostColumn ==
    (util.op = "split_node" /\ Len(util.feature) > 2 * util.min_node_size) =>
        /\ util.res.err = NoError
        /\ LET best == [c \in Cols |->
                          find_best_split(Column(TableFor(util.feature), c),
                                          CurvesFor(util.feature), util.min_node_size)]
               k == util.res.column_index
           IN /\ k \in Cols
              /\ util.res.split_val = best[k].point
              /\ util.res.new_tot_obj = best[k].cost
              /\ \A c \in Cols : ~FloatLt(best[c].cost, best[k].cost)
              /\ \A c \in Cols : c < k => FloatLt(best[k].cost, best[c].cost)

\* C16 (as claimed): when generate_split_candidates_numeric or
\* find_best_split returns, the caller's feature column holds the same values
\* in the same row order as before the call.
C16_FeatureColumnNotChanged ==
    (util.op \in {"generate_split_candidates_numeric", "find_best_split"}
        /\ util.res.err = NoError) =>
        util.feature_after = util.feature

\* the positions of the log of the last traversal that hold <<op, n>>
LogPositions(op, n) == {i \in 1 .. Len(iter.log) : iter.log[i] = <<op, n>>}
\* a node the traversal is to evaluate: no children, no flag set
Eligible(self) ==
    ~HasChildren(self) /\ ~self.stop_criteria_met /\ ~self.improvement_met

\* C13 (as claimed): fit on two equally sized groups of constant curves with
\* differing constants, a feature that is the group label and min_split_size
\* no larger than a group ends normally with the root split on that feature,
\* a combined objective of 0 and a positive interaction importance; with a
\* further iteration, each of the two leaves has stop_criteria_met or
\* improvement_met set and no children.
C13_GroupLabelScenario ==
    (/\ pc \in {"returned", "raised"}
     /\ Val(repid).method.s = "nonsymmetric"
     /\ data = MkTable(NRows \div 2) /\ ice_curve = MkCurves(NRows \div 2)
     /\ min_split_size <= NRows \div 2) =>
        /\ pc = "returned"
        /\ HasChildren(nodes[1])
        /\ nodes[1].split_feature = Some(0)
        /\ nodes[1].obj_val = Some(<<0, 1>>)
        /\ nodes[1].intImp # None /\ FloatLt(<<0, 1>>, Val(nodes[1].intImp))
        /\ IntOf(Val(repid).n_split) >= 2 =>
              \A c \in {Val(nodes[1].children.left), Val(nodes[1].children.right)} :
                  /\ nodes[c].stop_criteria_met \/ nodes[c].improvement_met
                  /\ ~HasChildren(nodes[c])

\* C14 (as claimed): a traversal by node_to_split ends without an error,
\* enters every node of the tree once, calls computeSplit once and revertSplit
\* once after it on every node that has no children and no flag set, and
\* leaves every other node as it was.
C14_TraversalEvaluatesAndReverts ==
    iter.end # "none" =>
        /\ iter.end = "finished"
        /\ \A n \in 1 .. Len(iter.pre) :
              /\ Cardinality(LogPositions("visit", n)) = 1
              /\ IF Eligible(iter.pre[n])
                 THEN /\ Cardinality(LogPositions("computeSplit", n)) = 1
                      /\ Cardinality(LogPositions("revertSplit", n)) = 1
                      /\ \A i \in LogPositions("computeSplit", n),
                            j \in LogPositions("revertSplit", n) : i < j
                 ELSE /\ LogPositions("computeSplit", n) = {}
                      /\ LogPositions("revertSplit", n) = {}
                      /\ nodes[n] = iter.pre[n]

\* the threshold the claim C15 gives for a node with the prior importance ii
ClaimedThreshold(ii, g) ==
    IF ii = None \/ FloatIsZero(Val(ii)) THEN g ELSE FloatMul(Val(ii), g)

\* C15 (as claimed): computeSplit on a node with at least min_split_size
\* rows, improvement_met unset and no split stored ends in exactly one of two
\* outcomes: improvement_met set and no split stored, or a split stored
\* (feature, threshold and an intImp that is not below the threshold) and
\* improvement_met unset.
C15_ExactlyOneOutcome ==
    (/\ last.op = "computeSplit"
     /\ Cardinality(Val(last.pre).subset_idx) >= min_split_size
     /\ ~Val(last.pre).improvement_met
     /\ NoStoredSplit(Val(last.pre))) =>
        /\ last.err = NoError
        /\ \/ /\ nodes[last.node].improvement_met
              /\ NoStoredSplit(nodes[last.node])
           \/ /\ ~nodes[last.node].improvement_met
              /\ nodes[last.node].split_feature # None
              /\ nodes[last.node].split_val # None
              /\ nodes[last.node].intImp # None
              /\ ~FloatLt(Val(nodes[last.node].intImp),
                          ClaimedThreshold(Val(last.pre).intImp, gamma))

\* the exceptions Python and numpy raise for a division by zero
NumericErrors == {"ZeroDivisionError", "FloatingPointError"}
\* a float that is a number: not nan, not inf, not -inf
Finite(a) == a[2] # 0

\* C18 (as claimed): when the reference objective is zero (all curves
\* identical), a computeSplit call that passes the stop check either raises a
\* numeric error or returns with improvement_met set and no split stored; the
\* node never holds a split or an intImp that is NaN or infinite.
C18_ZeroReferenceObjective ==
    (/\ last.op = "computeSplit"
     /\ FloatIsZero(SS_L2(ice_curve))
     /\ Cardinality(Val(last.pre).subset_idx) >= min_split_size
     /\ ~Val(last.pre).improvement_met) =>
        /\ \/ last.err \in NumericErrors
           \/ last.err = NoError /\ nodes[last.node].improvement_met
        /\ NoStoredSplit(nodes[last.node])
        /\ nodes[last.node].intImp # None => Finite(Val(nodes[last.node].intImp))

===========================================================================
